---- MODULE Spec2Model ----
(***************************************************************************)
(* A model of src/blockchain.py: the Blockchain class (chain, pending      *)
(* transactions, peer set, sealing, validity check, proof of work,         *)
(* consensus resolution) and the Flask handlers that drive it.             *)
(*                                                                         *)
(* Python lists are objects: a block holds a REFERENCE to the list that    *)
(* was the pending pool when it was sealed.  The model keeps the lists in  *)
(* a heap (lists) and blocks hold list ids.                                *)
(*                                                                         *)
(* SHA-256 is a library function.  It is abstracted by sha256 below: a     *)
(* collision-free digest (the message is kept in the digest) whose four    *)
(* leading hex characters are a small checksum of the message, so that the *)
(* proof-of-work puzzle has solutions inside the bounds.                   *)
(***************************************************************************)
EXTENDS Integers, Sequences, FiniteSets, TLC

VARIABLES
    chain,                  \* self.chain: sequence of blocks
    current_transactions,   \* self.current_transactions: id of the pool list
    lists,                  \* heap of the transaction lists made by this node
    nodes,                  \* self.nodes: set of netlocs
    ret,                    \* the last call: its name, inputs and result
    solved,                 \* ghost: every new_block call so far was given a
                            \* solved proof and the tip's hash (or no hash)
    resolves,               \* ghost: how many times resolve_conflicts ran
    threads                 \* where each request thread of the server is in
                            \* its handler, and the handler's local variables

vars == <<chain, current_transactions, lists, nodes, ret, solved, resolves,
          threads>>

----------------------------------------------------------------------------
(* Bounds of the model *)

MaxChain == 3        \* blocks one node creates, its genesis block included
MaxTx == 2           \* transactions the callers submit in one run
MaxTime == 1         \* time() returns a value in 1..MaxTime
MaxResolves == 1     \* consensus resolutions in one run
MaxLastProof == 20   \* proof_of_work is called on 0..MaxLastProof
MaxSearch == 20      \* proof_of_work returns a proof in 0..MaxSearch
MaxProof == 12       \* proofs 0..MaxProof are written into candidate chains
MaxThreads == 2      \* requests the server handles at the same time

(* Program constants *)

Difficulty == 4      \* guess_hash[:4] == "0000"
GenesisProof == 100  \* self.new_block(previous_hash=1, proof=100)

None == <<>>                 \* None; like "" and [] it is falsy
GenesisPreviousHash == <<1>> \* previous_hash=1 of the genesis block
node_identifier == "node"    \* str(uuid4()).replace('-', '')

----------------------------------------------------------------------------
(* Transactions *)

Transaction(sender, recipient, amount) ==
    [sender |-> sender, recipient |-> recipient, amount |-> amount]

TxAlice == Transaction("0", "alice", 1)
TxBob == Transaction("alice", "bob", 2)
Reward == Transaction("0", node_identifier, 1)

(* The transaction lists of the chains that peers report.  They are decoded *)
(* from JSON, no pool ever refers to them, so they never change.            *)
PeerLists ==
    (101 :> <<>>) @@ (102 :> <<TxAlice>>) @@ (103 :> <<TxBob>>)
        @@ (104 :> <<TxAlice, TxBob>>)

(* The list a block's 'transaction' refers to, in heap `heap`. *)
ListAt(id, heap) == IF id \in DOMAIN PeerLists THEN PeerLists[id] ELSE heap[id]

----------------------------------------------------------------------------
(* json.dumps(block, sort_keys=True) as a sequence of tokens *)

Ord(s) ==
    CASE s = "0" -> 10 [] s = "alice" -> 11 [] s = "bob" -> 12 [] OTHER -> 13

KeyCode(k) ==
    CASE k = "index" -> 21 [] k = "previous_hash" -> 22 [] k = "proof" -> 23
      [] k = "timestamp" -> 24 [] OTHER -> 25

SortedKeys == <<"index", "previous_hash", "proof", "timestamp", "transaction">>

DumpsTx(tx) == <<tx.amount, Ord(tx.recipient), Ord(tx.sender)>>

RECURSIVE DumpsList(_)
DumpsList(txs) ==
    IF txs = <<>> THEN <<>> ELSE DumpsTx(Head(txs)) \o DumpsList(Tail(txs))

DumpsValue(k, v, heap) ==
    CASE k = "previous_hash" -> <<Len(v)>> \o v
      [] k = "transaction" ->
            <<Len(ListAt(v, heap))>> \o DumpsList(ListAt(v, heap))
      [] OTHER -> <<v>>

RECURSIVE DumpsFrom(_, _, _)
DumpsFrom(block, i, heap) ==
    IF i > Len(SortedKeys) THEN <<>>
    ELSE LET k == SortedKeys[i] IN
         (IF k \in DOMAIN block
            THEN <<KeyCode(k)>> \o DumpsValue(k, block[k], heap)
            ELSE <<>>)
         \o DumpsFrom(block, i + 1, heap)

dumps(block, heap) == DumpsFrom(block, 1, heap)

(* hashlib.sha256(...).hexdigest(): hex characters as numbers 0..15.  The *)
(* checksum is computed over the halves of the message, Merkle fashion.    *)
RECURSIVE Checksum(_)
Checksum(msg) ==
    IF Len(msg) = 0 THEN 0
    ELSE IF Len(msg) = 1 THEN (msg[1] + 3) % 11
    ELSE LET h == Len(msg) \div 2
         IN  (Checksum(SubSeq(msg, 1, h)) * 3
                + Checksum(SubSeq(msg, h + 1, Len(msg))) + 3) % 11

sha256(msg) ==
    LET c == Checksum(msg)
    IN  <<c % 2, (c \div 2) % 2, (c \div 4) % 2, (c \div 8) % 2>> \o msg

(* The dict without key k. *)
Without(block, k) == [f \in DOMAIN block \ {k} |-> block[f]]

(* A digest that leaves the timestamp out. *)
HashInSkipsTimestamp(block, heap) ==
    sha256(dumps(Without(block, "timestamp"), heap))

(* Blockchain.hash, with the heap the block's list lives in *)
HashIn(block, heap) == sha256(dumps(block, heap))

hash(block) == HashIn(block, lists)

----------------------------------------------------------------------------
(* Proof of work *)

(* f'{n}': the decimal digits of n *)
RECURSIVE Str(_)
Str(n) == IF n < 10 THEN <<n>> ELSE Str(n \div 10) \o <<n % 10>>

valid_proof(last_proof, proof) ==
    LET guess == Str(last_proof) \o Str(proof)
        guess_hash == sha256(guess)
    IN  SubSeq(guess_hash, 1, Difficulty) = [i \in 1..Difficulty |-> 0]

RECURSIVE ProofSearch(_, _)
ProofSearch(last_proof, proof) ==
    IF valid_proof(last_proof, proof) THEN proof
    ELSE ProofSearch(last_proof, proof + 1)

(* A search that starts at 1. *)
ProofOfWorkFromOne(last_proof) == ProofSearch(last_proof, 1)

proof_of_work(last_proof) == ProofSearch(last_proof, 0)

----------------------------------------------------------------------------
(* Blockchain.valid_chain: "True", "False", or the exception it raises *)

HasKey(block, k) == k \in DOMAIN block

RECURSIVE ValidFrom(_, _, _)
ValidFrom(ch, current_index, heap) ==
    IF ~(current_index < Len(ch)) THEN "True"
    ELSE LET last == ch[current_index]
             block == ch[current_index + 1]
         IN  IF ~HasKey(block, "previous_hash") THEN "KeyError"
             ELSE IF block.previous_hash # HashIn(last, heap) THEN "False"
             ELSE IF ~HasKey(last, "proof") \/ ~HasKey(block, "proof")
                  THEN "KeyError"
             ELSE IF ~valid_proof(last.proof, block.proof) THEN "False"
             ELSE ValidFrom(ch, current_index + 1, heap)

ValidChainIn(ch, heap) ==
    IF ch = <<>> THEN "IndexError" ELSE ValidFrom(ch, 1, heap)

valid_chain(ch) == ValidChainIn(ch, lists)

----------------------------------------------------------------------------
(* The ledger: Blockchain.__init__, new_block, new_transaction, last_block *)

Timestamps == 1..MaxTime

Txs == {TxAlice, TxBob}

last_block == chain[Len(chain)]

(* The call record kept in ret. *)
Call(op, result, index, reports) ==
    [op |-> op, result |-> result, index |-> index, reports |-> reports]

(* A slip in new_block: the hash of the first block, not of the last. *)
BlockRecordHashesFirst(ch, pool, heap, proof, previous_hash, ts) ==
    [index |-> Len(ch) + 1,
     timestamp |-> ts,
     transaction |-> pool,
     proof |-> proof,
     previous_hash |-> IF previous_hash # None THEN previous_hash
                       ELSE HashIn(ch[1], heap)]

(* The dict built by new_block, lines 27-33.  `pool` is the list object the *)
(* block refers to; `previous_hash or self.hash(self.chain[-1])`.           *)
BlockRecord(ch, pool, heap, proof, previous_hash, ts) ==
    [index |-> Len(ch) + 1,
     timestamp |-> ts,
     transaction |-> pool,
     proof |-> proof,
     previous_hash |-> IF previous_hash # None THEN previous_hash
                       ELSE HashIn(ch[Len(ch)], heap)]

(* A slip in new_block: the pool is not reset. *)
SealIntoKeepsPool(proof, previous_hash, ts) ==
    /\ chain' = Append(chain, BlockRecord(chain, current_transactions, lists,
                                          proof, previous_hash, ts))
    /\ lists' = lists
    /\ current_transactions' = current_transactions

(* new_block's effect on the ledger: a fresh empty pool, the block appended. *)
SealInto(proof, previous_hash, ts) ==
    /\ chain' = Append(chain, BlockRecord(chain, current_transactions, lists,
                                          proof, previous_hash, ts))
    /\ lists' = Append(lists, <<>>)
    /\ current_transactions' = Len(lists) + 1

(* The value new_transaction returns: self.last_block['index'] + 1 *)
NextIndex == IF HasKey(last_block, "index") THEN last_block.index + 1 ELSE 0

NextIndexResult == IF HasKey(last_block, "index") THEN "ok" ELSE "KeyError"

(* self.current_transactions.append({...}) *)
AppendToPool(tx) ==
    lists' = [lists EXCEPT ![current_transactions] = Append(@, tx)]

(* How many blocks this node has created, and how many transactions callers *)
(* have submitted: what the bounds limit.                                   *)
RECURSIVE Submitted(_)
Submitted(heap) ==
    IF heap = <<>> THEN 0
    ELSE Len(SelectSeq(Head(heap), LAMBDA tx : tx \in Txs)) + Submitted(Tail(heap))

Threads == 1..MaxThreads

(* A thread that handles no request. *)
Idle ==
    [pc |-> "idle", last_block |-> None, proof |-> 0, previous_hash |-> None,
     block |-> None, new_chain |-> None, pool |-> 0, tx |-> None,
     chain |-> None, length |-> 0]

CanSeal == Len(lists) - 1 < MaxChain
CanSubmit == Submitted(lists) < MaxTx

(* Blockchain.__init__ but for self.nodes *)
Constructed ==
    /\ \E ts \in Timestamps :
         chain = <<BlockRecord(<<>>, 1, <<>>, GenesisProof, GenesisPreviousHash, ts)>>
    /\ lists = <<<<>>, <<>>>>
    /\ current_transactions = 2
    /\ ret = Call("__init__", "ok", 0, <<>>)
    /\ solved = TRUE
    /\ resolves = 0
    /\ threads = [t \in Threads |-> Idle]

Init == Constructed /\ nodes = {}

new_transaction(sender, recipient, amount) ==
    /\ CanSubmit
    /\ AppendToPool(Transaction(sender, recipient, amount))
    /\ ret' = Call("new_transaction", NextIndexResult, NextIndex, <<>>)
    /\ UNCHANGED <<chain, current_transactions, nodes, solved, resolves, threads>>

(* Whether the arguments of a new_block call solve the puzzle of the tip and *)
(* name the tip (or leave the hash out).                                     *)
SolvedSeal(proof, previous_hash) ==
    /\ HasKey(last_block, "proof")
    /\ valid_proof(last_block.proof, proof)
    /\ previous_hash \in {None, hash(last_block)}

new_block(proof, previous_hash) ==
    /\ CanSeal
    /\ \E ts \in Timestamps : SealInto(proof, previous_hash, ts)
    /\ ret' = Call("new_block", "ok", Len(chain) + 1, <<>>)
    /\ solved' = (solved /\ SolvedSeal(proof, previous_hash))
    /\ UNCHANGED <<nodes, resolves, threads>>

(* The arguments callers pass to new_block: the solved proof or the genesis *)
(* proof again; no hash, the tip's hash, or the genesis sentinel.           *)
ProofArgs ==
    {GenesisProof} \cup
    (IF HasKey(last_block, "proof") THEN {proof_of_work(last_block.proof)} ELSE {})

PreviousHashArgs == {None, hash(last_block), GenesisPreviousHash}

NextSeal ==
    \/ \E tx \in Txs : new_transaction(tx.sender, tx.recipient, tx.amount)
    \/ \E proof \in ProofArgs, previous_hash \in PreviousHashArgs :
         new_block(proof, previous_hash)

SpecSeal == Init /\ [][NextSeal]_vars

----------------------------------------------------------------------------
(* The chains peers report: response.json()['chain'] and ['length'] *)

PeerSeal(ch, txs, proof) ==
    Append(ch, BlockRecord(ch, txs, <<>>, proof, None, 1))

PeerSolve(ch, txs) == PeerSeal(ch, txs, proof_of_work(ch[Len(ch)].proof))

Valid1 == <<BlockRecord(<<>>, 101, <<>>, GenesisProof, GenesisPreviousHash, 1)>>
Valid2 == PeerSolve(Valid1, 102)
Valid3 == PeerSolve(Valid2, 103)
Valid3b == PeerSolve(Valid2, 104)
Valid4 == PeerSolve(Valid3, 102)
(* block 2 altered after block 3 was sealed on it *)
BrokenLink3 == [Valid3 EXCEPT ![2].transaction = 104]
(* block 3 sealed with a proof that does not solve the puzzle *)
BadProof3 == PeerSeal(Valid2, 103, GenesisProof)
(* block 3 has no 'proof' *)
NoProof3 == [Valid3 EXCEPT ![3] = Without(@, "proof")]

(* block 3 sealed on block 2 with index 7 *)
Gapped3 == [Valid3 EXCEPT ![3].index = 7]

(* What requests.get gives for one peer: the exception it raises ("" when  *)
(* none), the status code, and the decoded length and chain.               *)
Report(raises, status, length, ch) ==
    [raises |-> raises, status |-> status, length |-> length, chain |-> ch]

Honest(ch) == Report("", 200, Len(ch), ch)

Unreachable == Report("ConnectionError", 0, 0, <<>>)

Reports ==
    {Honest(ch) : ch \in {Valid1, Valid3, Valid3b, Valid4, BrokenLink3,
                          BadProof3, NoProof3, Gapped3}}
      \cup {Report("", 200, 5, Valid1), Report("", 200, 5, <<>>),
            Report("", 404, 0, <<>>), Unreachable}

(* self.valid_chain(chain) for the chains decoded from a response, which    *)
(* refer to no list of this node; tabulated.                               *)
ValidPeerChain == [ch \in {r.chain : r \in Reports} |-> ValidChainIn(ch, <<>>)]

(* The reports of the peers in the order the loop visits them. *)
ReportSeqs(n) == [1..n -> Reports]

----------------------------------------------------------------------------
(* Blockchain.register_node and Blockchain.resolve_conflicts *)

Addresses == {"http://192.168.0.5:5000", "http://192.168.0.5:5000/chain",
              "http://192.168.0.6:5000"}

(* urlparse(address).netloc *)
Netloc(address) ==
    IF address = "http://192.168.0.6:5000" THEN "192.168.0.6:5000"
    ELSE "192.168.0.5:5000"

register_node(address) == nodes' = nodes \cup {Netloc(address)}

(* The loop of lines 116-127 over the remaining reports.  It ends with the  *)
(* exception a fetch or a validation raised ("" when none) and new_chain.   *)
Outcome(raised, new_chain) == [raised |-> raised, new_chain |-> new_chain]

(* A resolver that also takes a chain as long as its running maximum. *)
LongerOrEqual(length, max_length) == length >= max_length

(* Line 125, the first conjunct. *)
Longer(length, max_length) == length > max_length

RECURSIVE ResolveLoop(_, _, _)
ResolveLoop(reports, max_length, new_chain) ==
    IF reports = <<>> THEN Outcome("", new_chain)
    ELSE LET response == Head(reports)
             rest == Tail(reports)
         IN  IF response.raises # ""
               THEN Outcome(response.raises, new_chain)
             ELSE IF response.status # 200
               THEN ResolveLoop(rest, max_length, new_chain)
             ELSE IF ~Longer(response.length, max_length)
               THEN ResolveLoop(rest, max_length, new_chain)
             ELSE LET valid == ValidPeerChain[response.chain]
                  IN  IF valid = "True"
                        THEN ResolveLoop(rest, response.length, response.chain)
                      ELSE IF valid = "False"
                        THEN ResolveLoop(rest, max_length, new_chain)
                      ELSE Outcome(valid, new_chain)

(* What resolve_conflicts returns, or the exception it ends with. *)
ResolveResult(outcome) ==
    IF outcome.raised # "" THEN outcome.raised
    ELSE IF outcome.new_chain # None THEN "True"
    ELSE "False"

(* A resolver that adopts the candidate it holds when the loop raises. *)
ResolvedChainKeepsCandidate(outcome) ==
    IF outcome.new_chain # None THEN outcome.new_chain ELSE chain

(* Lines 130-132: the chain after the call. *)
ResolvedChain(outcome) ==
    IF outcome.raised = "" /\ outcome.new_chain # None THEN outcome.new_chain
    ELSE chain

(* A resolver that empties the pool when it replaces the chain. *)
ResolveClearsPool(reports) ==
    LET outcome == ResolveLoop(reports, Len(chain), None)
    IN  /\ resolves < MaxResolves
        /\ chain' = ResolvedChain(outcome)
        /\ lists' = IF chain' = chain THEN lists
                    ELSE [lists EXCEPT ![current_transactions] = <<>>]
        /\ ret' = Call("resolve_conflicts", ResolveResult(outcome), 0, reports)
        /\ resolves' = resolves + 1
        /\ UNCHANGED <<current_transactions, nodes, solved, threads>>

resolve_conflicts(reports) ==
    LET outcome == ResolveLoop(reports, Len(chain), None)
    IN  /\ resolves < MaxResolves
        /\ chain' = ResolvedChain(outcome)
        /\ ret' = Call("resolve_conflicts", ResolveResult(outcome), 0, reports)
        /\ resolves' = resolves + 1
        /\ UNCHANGED <<current_transactions, lists, nodes, solved, threads>>

----------------------------------------------------------------------------
(* The Flask handlers *)

(* POST /transactions/new: 400 when a required field is missing *)
Required == {"sender", "recipient", "amount"}

TxRequests == {TxAlice, [sender |-> "0", amount |-> 1]}

transactions_new(values) ==
    IF ~(Required \subseteq DOMAIN values)
      THEN /\ ret' = Call("transactions_new", "400", 0, <<>>)
           /\ UNCHANGED <<chain, current_transactions, lists, nodes, solved,
                          resolves, threads>>
      ELSE new_transaction(values.sender, values.recipient, values.amount)

(* GET /mine.  The handler ends with a KeyError: a block has no key         *)
(* 'transactions' (line 222); by then the block is appended.  It ends       *)
(* earlier when the tip has no 'proof' (line 205) or no 'index' (line 56).  *)
mine ==
    /\ CanSeal
    /\ IF ~HasKey(last_block, "proof")
         THEN /\ ret' = Call("mine", "KeyError: proof", 0, <<>>)
              /\ UNCHANGED <<chain, current_transactions, lists>>
       ELSE IF ~HasKey(last_block, "index")
         THEN /\ AppendToPool(Reward)
              /\ ret' = Call("mine", "KeyError: index", 0, <<>>)
              /\ UNCHANGED <<chain, current_transactions>>
       ELSE \E ts \in Timestamps :
              LET proof == proof_of_work(last_block.proof)
                  pool == current_transactions
                  heap == [lists EXCEPT ![pool] = Append(@, Reward)]
                  previous_hash == HashIn(last_block, heap)
              IN  /\ chain' = Append(chain, BlockRecord(chain, pool, heap, proof,
                                                        previous_hash, ts))
                  /\ lists' = Append(heap, <<>>)
                  /\ current_transactions' = Len(lists) + 1
                  /\ ret' = Call("mine", "KeyError: transactions",
                                 Len(chain) + 1, <<>>)
    /\ UNCHANGED <<nodes, solved, resolves, threads>>

(* GET /chain *)
full_chain ==
    /\ ret' = Call("full_chain", "200", Len(chain), <<>>)
    /\ UNCHANGED <<chain, current_transactions, lists, nodes, solved, resolves, threads>>

(* POST /nodes/register with one address in the list, or without 'nodes' *)
NoNodes == "None"

register_nodes(address) ==
    /\ IF address = NoNodes
         THEN UNCHANGED nodes
         ELSE register_node(address)
    /\ ret' = Call("register_nodes", IF address = NoNodes THEN "400" ELSE "201",
                   Cardinality(nodes'), <<>>)
    /\ UNCHANGED <<chain, current_transactions, lists, solved, resolves, threads>>

(* GET /nodes/resolve *)
consensus ==
    \E reports \in ReportSeqs(Cardinality(nodes)) : resolve_conflicts(reports)

Next ==
    \/ \E values \in TxRequests : transactions_new(values)
    \/ mine
    \/ full_chain
    \/ \E address \in Addresses \cup {NoNodes} : register_nodes(address)
    \/ consensus

Spec == Init /\ [][Next]_vars

(* One consensus resolution, in any state the other handlers lead to. *)
NextResolve ==
    \/ resolves = 0 /\ \E values \in TxRequests : transactions_new(values)
    \/ resolves = 0 /\ mine
    \/ resolves = 0 /\ \E address \in Addresses : register_nodes(address)
    \/ resolves = 0 /\ consensus

SpecResolve == Init /\ [][NextResolve]_vars

----------------------------------------------------------------------------
(* The handlers as the threaded server runs them: each request has its own  *)
(* thread, and the threads interleave between the steps below.  A step      *)
(* holds one access to the ledger, or the accesses of one statement.        *)

Goto(t, pc) == [threads EXCEPT ![t].pc = pc]

Return(t) == [threads EXCEPT ![t] = Idle]

(* The threads inside mine that have not yet made their block's new pool. *)
Sealing ==
    {t \in Threads :
       threads[t].pc \in {"mine_reward", "mine_reward_append", "mine_hash",
                          "new_block", "new_block_reset"}}

(* mine, lines 204-206: the tip, its proof, the proof of work *)
mine_last_block(t) ==
    /\ threads[t].pc = "idle"
    /\ Len(lists) - 1 + Cardinality(Sealing) < MaxChain
    /\ IF ~HasKey(last_block, "proof")
         THEN /\ ret' = Call("mine", "KeyError: proof", 0, <<>>)
              /\ UNCHANGED threads
         ELSE /\ threads' = [threads EXCEPT
                               ![t].pc = "mine_reward",
                               ![t].last_block = last_block,
                               ![t].proof = proof_of_work(last_block.proof)]
              /\ UNCHANGED ret
    /\ UNCHANGED <<chain, current_transactions, lists, nodes, solved, resolves>>

(* list.append on the list object with id `id` *)
AppendTo(id, tx) == lists' = [lists EXCEPT ![id] = Append(@, tx)]

(* The threads that hold a transaction they have not appended yet. *)
Submitting == {t \in Threads : threads[t].pc = "new_transaction_append"}

(* mine, lines 209-213, to the evaluation of self.current_transactions in   *)
(* line 50: the thread holds the list object, then builds the dict          *)
mine_reward(t) ==
    /\ threads[t].pc = "mine_reward"
    /\ threads' = [threads EXCEPT
                     ![t].pc = "mine_reward_append",
                     ![t].pool = current_transactions]
    /\ UNCHANGED <<chain, current_transactions, lists, nodes, ret, solved,
                   resolves>>

(* new_transaction, lines 50-56, called by mine: the append and the index *)
mine_reward_append(t) ==
    /\ threads[t].pc = "mine_reward_append"
    /\ AppendTo(threads[t].pool, Reward)
    /\ IF ~HasKey(last_block, "index")
         THEN /\ ret' = Call("mine", "KeyError: index", 0, <<>>)
              /\ threads' = Return(t)
         ELSE /\ threads' = Goto(t, "mine_hash")
              /\ UNCHANGED ret
    /\ UNCHANGED <<chain, current_transactions, nodes, solved, resolves>>

(* mine, line 216: the hash of the block read at line 204 *)
mine_hash(t) ==
    /\ threads[t].pc = "mine_hash"
    /\ threads' = [threads EXCEPT
                     ![t].pc = "new_block",
                     ![t].previous_hash = hash(threads[t].last_block)]
    /\ UNCHANGED <<chain, current_transactions, lists, nodes, ret, solved,
                   resolves>>

(* new_block, lines 27-33: the dict *)
new_block_dict(t) ==
    /\ threads[t].pc = "new_block"
    /\ \E ts \in Timestamps :
         threads' = [threads EXCEPT
                       ![t].pc = "new_block_reset",
                       ![t].block = BlockRecord(chain, current_transactions, lists,
                                                threads[t].proof,
                                                threads[t].previous_hash, ts)]
    /\ UNCHANGED <<chain, current_transactions, lists, nodes, ret, solved,
                   resolves>>

(* new_block, line 36: a new empty pool *)
new_block_reset(t) ==
    /\ threads[t].pc = "new_block_reset"
    /\ lists' = Append(lists, <<>>)
    /\ current_transactions' = Len(lists) + 1
    /\ threads' = Goto(t, "new_block_append")
    /\ UNCHANGED <<chain, nodes, ret, solved, resolves>>

(* The threads inside GET /chain that hold the list object self.chain is   *)
(* bound to.  A replacement binds self.chain to a longer list, and appends  *)
(* only lengthen it, so a list it was bound to before never equals it.      *)
Reading ==
    {t \in Threads : /\ threads[t].pc \in {"full_chain_length", "full_chain_jsonify"}
                     /\ threads[t].chain = chain}

(* list.append on the list self.chain is bound to: every thread that holds *)
(* that list sees the block.                                                *)
Appended(ths, block) ==
    [t \in Threads |->
       IF t \in Reading THEN [ths[t] EXCEPT !.chain = Append(chain, block)]
       ELSE ths[t]]

(* new_block, line 38, and mine to its end, lines 219-225 *)
new_block_append(t) ==
    /\ threads[t].pc = "new_block_append"
    /\ chain' = Append(chain, threads[t].block)
    /\ ret' = Call("mine", "KeyError: transactions", threads[t].block.index, <<>>)
    /\ threads' = Appended(Return(t), threads[t].block)
    /\ UNCHANGED <<current_transactions, lists, nodes, solved, resolves>>

(* POST /transactions/new to the evaluation of self.current_transactions   *)
(* in line 50                                                               *)
transactions_new_values(t, values) ==
    /\ threads[t].pc = "idle"
    /\ IF ~(Required \subseteq DOMAIN values)
         THEN /\ ret' = Call("transactions_new", "400", 0, <<>>)
              /\ UNCHANGED threads
         ELSE /\ Submitted(lists) + Cardinality(Submitting) < MaxTx
              /\ threads' = [threads EXCEPT
                               ![t].pc = "new_transaction_append",
                               ![t].pool = current_transactions,
                               ![t].tx = Transaction(values.sender,
                                                     values.recipient,
                                                     values.amount)]
              /\ UNCHANGED ret
    /\ UNCHANGED <<chain, current_transactions, lists, nodes, solved, resolves>>

(* new_transaction, lines 50-54: the append to the list the thread holds *)
new_transaction_append(t) ==
    /\ threads[t].pc = "new_transaction_append"
    /\ AppendTo(threads[t].pool, threads[t].tx)
    /\ threads' = Goto(t, "new_transaction_index")
    /\ UNCHANGED <<chain, current_transactions, nodes, ret, solved, resolves>>

(* new_transaction, line 56, and the handler to its end *)
new_transaction_index(t) ==
    /\ threads[t].pc = "new_transaction_index"
    /\ ret' = Call("transactions_new", NextIndexResult, NextIndex, <<>>)
    /\ threads' = Return(t)
    /\ UNCHANGED <<chain, current_transactions, lists, nodes, solved, resolves>>

(* resolve_conflicts, lines 109-127: max_length and the loop over the peers *)
resolve_loop(t, reports) ==
    LET outcome == ResolveLoop(reports, Len(chain), None)
        result == ResolveResult(outcome)
    IN  /\ threads[t].pc = "idle"
        /\ resolves < MaxResolves
        /\ resolves' = resolves + 1
        /\ IF result = "True"
             THEN /\ threads' = [threads EXCEPT
                                   ![t].pc = "resolve_replace",
                                   ![t].new_chain = outcome.new_chain]
                  /\ UNCHANGED ret
             ELSE /\ ret' = Call("resolve_conflicts", result, 0, reports)
                  /\ UNCHANGED threads
        /\ UNCHANGED <<chain, current_transactions, lists, nodes, solved>>

(* resolve_conflicts, lines 130-132 *)
resolve_replace(t) ==
    /\ threads[t].pc = "resolve_replace"
    /\ chain' = threads[t].new_chain
    /\ ret' = Call("resolve_conflicts", "True", 0, <<>>)
    /\ threads' = Return(t)
    /\ UNCHANGED <<current_transactions, lists, nodes, solved, resolves>>

(* GET /chain, line 248: the list object self.chain is bound to *)
full_chain_chain(t) ==
    /\ threads[t].pc = "idle"
    /\ threads' = [threads EXCEPT ![t].pc = "full_chain_length",
                                   ![t].chain = chain]
    /\ UNCHANGED <<chain, current_transactions, lists, nodes, ret, solved,
                   resolves>>

(* GET /chain, line 249: len of the list self.chain is bound to now *)
full_chain_length(t) ==
    /\ threads[t].pc = "full_chain_length"
    /\ threads' = [threads EXCEPT ![t].pc = "full_chain_jsonify",
                                   ![t].length = Len(chain)]
    /\ UNCHANGED <<chain, current_transactions, lists, nodes, ret, solved,
                   resolves>>

(* GET /chain, line 251: the response, the list of line 248 as it is now *)
full_chain_jsonify(t) ==
    /\ threads[t].pc = "full_chain_jsonify"
    /\ ret' = Call("full_chain", "200", threads[t].length,
                   <<Report("", 200, threads[t].length, threads[t].chain)>>)
    /\ threads' = Return(t)
    /\ UNCHANGED <<chain, current_transactions, lists, nodes, solved, resolves>>

(* A node that has registered a peer. *)
InitThreaded ==
    /\ Constructed
    /\ \E address \in Addresses : nodes = {Netloc(address)}

NextThreaded ==
    \E t \in Threads :
      \/ mine_last_block(t)
      \/ mine_reward(t)
      \/ mine_reward_append(t)
      \/ mine_hash(t)
      \/ new_block_dict(t)
      \/ new_block_reset(t)
      \/ new_block_append(t)
      \/ \E values \in TxRequests : transactions_new_values(t, values)
      \/ new_transaction_append(t)
      \/ new_transaction_index(t)
      \/ \E reports \in ReportSeqs(Cardinality(nodes)) : resolve_loop(t, reports)
      \/ resolve_replace(t)

SpecThreaded == InitThreaded /\ [][NextThreaded]_vars

(* The requests that read and write the chain: mine, consensus, GET /chain. *)
NextRead ==
    \E t \in Threads :
      \/ mine_last_block(t)
      \/ mine_reward(t)
      \/ mine_reward_append(t)
      \/ mine_hash(t)
      \/ new_block_dict(t)
      \/ new_block_reset(t)
      \/ new_block_append(t)
      \/ \E reports \in ReportSeqs(Cardinality(nodes)) : resolve_loop(t, reports)
      \/ resolve_replace(t)
      \/ full_chain_chain(t)
      \/ full_chain_length(t)
      \/ full_chain_jsonify(t)

SpecRead == InitThreaded /\ [][NextRead]_vars

----------------------------------------------------------------------------
(* proof_of_work as a function of last_proof, called on a ledger that       *)
(* requests have changed.  ret holds the proof and, in reports, last_proof. *)

(* The proofs a tip can carry: the genesis proof, a peer's number. *)
LastProofs == 0..MaxLastProof \cup {GenesisProof}

(* Blockchain.proof_of_work, lines 155-172, called on its own *)
proof_of_work_call(last_proof) ==
    /\ ret' = Call("proof_of_work", "ok", proof_of_work(last_proof), <<last_proof>>)
    /\ UNCHANGED <<chain, current_transactions, lists, nodes, solved, resolves,
                   threads>>

NextProof ==
    \/ \E values \in TxRequests : transactions_new(values)
    \/ mine
    \/ \E last_proof \in LastProofs : proof_of_work_call(last_proof)

SpecProof == Init /\ [][NextProof]_vars

----------------------------------------------------------------------------
(* valid_chain as a function of the candidate chain.  The candidate is in   *)
(* `chain`; it is a chain sealed from genesis or the empty chain, and one   *)
(* step validates it as it is, or with one field of one block changed or    *)
(* missing.  ret holds the verdict, the block and the field.                *)

(* The lists sealed into the candidates: no transaction, or one. *)
SealedLists == {101, 102}

RECURSIVE SealedChains(_)
SealedChains(n) ==
    IF n = 1
      THEN {<<BlockRecord(<<>>, 101, <<>>, GenesisProof, GenesisPreviousHash, ts)>> :
              ts \in Timestamps}
      ELSE {Append(ch, BlockRecord(ch, txs, <<>>, proof_of_work(ch[Len(ch)].proof),
                                   None, ts)) :
              ch \in SealedChains(n - 1), txs \in SealedLists,
              ts \in Timestamps}

Candidates == {<<>>} \cup UNION {SealedChains(n) : n \in 1..MaxChain}

(* The values written into field k of a block of ch. *)
FieldValues(k, ch) ==
    CASE k = "index" -> 0..(MaxChain + 1)
      [] k = "timestamp" -> 0..MaxTime
      [] k = "transaction" -> DOMAIN PeerLists
      [] k = "proof" -> 0..MaxProof \cup {GenesisProof}
      [] OTHER -> {GenesisPreviousHash} \cup {HashIn(ch[j], <<>>) : j \in DOMAIN ch}

InitValid ==
    /\ chain \in Candidates
    /\ lists = <<>>
    /\ current_transactions = 0
    /\ nodes = {}
    /\ ret = Call("candidate", "", 0, <<>>)
    /\ solved = TRUE
    /\ resolves = 0
    /\ threads = [t \in Threads |-> Idle]

Validate ==
    /\ ret.op = "candidate"
    /\ ret' = Call("valid_chain", valid_chain(chain), 0, <<>>)
    /\ UNCHANGED <<chain, current_transactions, lists, nodes, solved, resolves, threads>>

Tamper(i, k, v) ==
    /\ ret.op = "candidate"
    /\ v # chain[i][k]
    /\ chain' = [chain EXCEPT ![i][k] = v]
    /\ ret' = Call("tamper", valid_chain(chain'), i, <<k>>)
    /\ UNCHANGED <<current_transactions, lists, nodes, solved, resolves, threads>>

DropField(i, k) ==
    /\ ret.op = "candidate"
    /\ chain' = [chain EXCEPT ![i] = Without(@, k)]
    /\ ret' = Call("drop", valid_chain(chain'), i, <<k>>)
    /\ UNCHANGED <<current_transactions, lists, nodes, solved, resolves, threads>>

Fields == {SortedKeys[k] : k \in DOMAIN SortedKeys}

NextValid ==
    \/ Validate
    \/ \E i \in DOMAIN chain, k \in Fields :
         \E v \in FieldValues(k, chain) : Tamper(i, k, v)
    \/ \E i \in DOMAIN chain, k \in Fields : DropField(i, k)

SpecValid == InitValid /\ [][NextValid]_vars

----------------------------------------------------------------------------
(* Claims about sealing, checked under SpecSeal *)

Pool == ListAt(current_transactions, lists)

BlockTxs(block) == ListAt(block.transaction, lists)

(* C1, as stated: after any sequence of new_transaction and new_block calls *)
(* valid_chain(self.chain) returns True.                                    *)
C1_AnySealedChainIsValid == valid_chain(chain) = "True"

(* C1, amended: when every new_block call was given a proof that solves the *)
(* puzzle of the tip, and no previous_hash or the hash of the tip, then     *)
(* valid_chain(self.chain) returns True.                                    *)
C1_SolvedSealsGiveValidChain == solved => valid_chain(chain) = "True"

C1_Witness ==
    /\ solved
    /\ ret.op = "new_block"
    /\ Len(chain) >= 3
    /\ BlockTxs(chain[2]) # <<>>

(* C6: a new_block call leaves the pending pool empty, and the block it     *)
(* appends holds the transactions the pool held just before the call, in    *)
(* the same order, whatever proof and previous_hash it is given.            *)
C6_SealMovesPoolIntoBlock ==
    [][ret'.op = "new_block" =>
         /\ ListAt(current_transactions', lists') = <<>>
         /\ Len(chain') = Len(chain) + 1
         /\ SubSeq(chain', 1, Len(chain)) = chain
         /\ ListAt(chain'[Len(chain')].transaction, lists') = Pool]_vars

C6_Witness ==
    /\ ret.op = "new_block"
    /\ BlockTxs(last_block) = <<TxBob, TxAlice>>
    /\ Pool = <<>>

----------------------------------------------------------------------------
(* Claims about consensus, checked under Spec.  A step of resolve_conflicts *)
(* is a step to a state whose ret names it; ret.reports holds what the      *)
(* peers answered, in the order the loop visited them.  The length of a     *)
(* peer's chain is the 'length' the peer reports.                           *)

Resolved == ret'.op = "resolve_conflicts"

Answers == {ret'.reports[i] : i \in DOMAIN ret'.reports}

(* The peer answered with status 200. *)
Offers(r) == r.raises = "" /\ r.status = 200

(* A chain with a block, every block with its five fields. *)
WellFormed(ch) ==
    /\ ch # <<>>
    /\ \A i \in DOMAIN ch : \A k \in DOMAIN SortedKeys :
          HasKey(ch[i], SortedKeys[k])

(* C2, as stated: resolve_conflicts never leaves the local chain shorter    *)
(* than it was before the call, whatever chain and length the peers report. *)
C2_ResolveNeverShortens == [][Resolved => Len(chain') >= Len(chain)]_vars

(* The answers, among rs, that report a valid chain longer than n blocks. *)
ValidLonger(rs, n) ==
    {r \in rs : Offers(r) /\ r.length > n /\ ValidChainIn(r.chain, lists) = "True"}

(* C3, as stated: resolve_conflicts never adopts a chain that fails         *)
(* valid_chain, and when a peer reports a longer chain with a broken hash   *)
(* link or an invalid proof and no peer reports a valid longer chain, it    *)
(* leaves the local chain as it was and returns False.                      *)
C3_RejectsInvalidAndReportsUnchanged ==
    [][Resolved =>
         /\ chain' # chain => ValidChainIn(chain', lists') = "True"
         /\ ( /\ \E r \in Answers :
                    /\ Offers(r) /\ r.length > Len(chain)
                    /\ ValidChainIn(r.chain, lists) = "False"
              /\ ValidLonger(Answers, Len(chain)) = {} )
             => chain' = chain /\ ret'.result = "False"]_vars

(* What holds of C3: a chain that replaces the local chain is one a peer    *)
(* reported and valid_chain accepts; and when every peer can be reached and *)
(* every chain reported longer than the local one has a broken link or an   *)
(* invalid proof, the call returns False and the local chain is as it was.  *)
ResolveAdoptsOnlyValidChains ==
    [][Resolved =>
         /\ chain' # chain =>
               /\ \E r \in Answers : Offers(r) /\ chain' = r.chain
               /\ ValidChainIn(chain', lists') = "True"
         /\ ( /\ \A r \in Answers : r.raises = ""
              /\ \A r \in Answers :
                    Offers(r) /\ r.length > Len(chain)
                      => ValidChainIn(r.chain, lists) = "False" )
             => chain' = chain /\ ret'.result = "False"]_vars

(* C4, as stated: when every peer answers with status 200, resolve_conflicts *)
(* returns True exactly when some peer reports a valid chain longer than    *)
(* the local one, and then the local chain becomes a valid reported chain   *)
(* of the greatest length; otherwise it returns False and the local chain   *)
(* is as it was, so a peer whose length only equals the local length causes *)
(* no replacement.                                                          *)
C4_AdoptsLongestValidChain ==
    [][Resolved /\ (\A r \in Answers : Offers(r)) =>
         LET best == ValidLonger(Answers, Len(chain))
         IN  IF best = {}
               THEN ret'.result = "False" /\ chain' = chain
               ELSE /\ ret'.result = "True"
                    /\ \E r \in best :
                          /\ chain' = r.chain
                          /\ \A q \in best : q.length <= r.length]_vars

(* What holds of C4: the same, when every reported chain has a block and    *)
(* every block has its five fields.                                         *)
ResolveAdoptsLongestOfCompleteChains ==
    [][Resolved /\ (\A r \in Answers : Offers(r) /\ WellFormed(r.chain)) =>
         LET best == ValidLonger(Answers, Len(chain))
         IN  IF best = {}
               THEN ret'.result = "False" /\ chain' = chain
               ELSE /\ ret'.result = "True"
                    /\ \E r \in best :
                          /\ chain' = r.chain
                          /\ \A q \in best : q.length <= r.length]_vars

(* C5, as stated: a peer that cannot be reached or answers with a status    *)
(* other than 200 is skipped: the call ends as it would have ended with     *)
(* only the peers that answered with status 200, returning True or False.   *)
C5_FailedPeersAreSkipped ==
    [][Resolved
         /\ (\A r \in Answers : Offers(r) => WellFormed(r.chain)) =>
         LET answered == SelectSeq(ret'.reports, Offers)
             outcome == ResolveLoop(answered, Len(chain), None)
         IN  /\ ret'.result = ResolveResult(outcome)
             /\ chain' = ResolvedChain(outcome)
             /\ ret'.result \in {"True", "False"}]_vars

----------------------------------------------------------------------------
(* Claims about valid_chain, checked under SpecValid *)

(* The step changes field k of block i of a chain valid_chain accepts. *)
Changes(i, k) ==
    /\ ret'.op = "tamper" /\ ret'.index = i /\ ret'.reports = <<k>>
    /\ valid_chain(chain) = "True"

(* C7, as stated: in a valid chain, changing any single field of any block  *)
(* but the first, the last block included, makes valid_chain return False.  *)
C7_AnyChangeIsDetected ==
    [][\A i \in 2..Len(chain), k \in Fields :
         Changes(i, k) => valid_chain(chain') = "False"]_vars

(* C7, amended: in a valid chain, changing any single field of a block that *)
(* is neither the first nor the last, or the previous_hash of the last      *)
(* block, or the proof of the last block to one that does not solve the     *)
(* puzzle, makes valid_chain return False; any other change of the last     *)
(* block leaves it returning True.                                          *)
C7_ChangeBelowTheTipIsDetected ==
    [][\A i \in 2..Len(chain), k \in Fields :
         Changes(i, k) =>
           LET detected ==
                 \/ i < Len(chain)
                 \/ k = "previous_hash"
                 \/ k = "proof" /\ ~valid_proof(chain[i - 1].proof, chain'[i].proof)
           IN  valid_chain(chain') = (IF detected THEN "False" ELSE "True")]_vars

C7_Witness ==
    /\ ret.op = "tamper"
    /\ ret.index = 2
    /\ ret.reports = <<"transaction">>
    /\ Len(chain) = 3
    /\ ret.result = "False"

(* A block of ch misses one of the five fields. *)
Malformed(ch) == \E i \in DOMAIN ch : \E k \in Fields : ~HasKey(ch[i], k)

(* C8, as stated: valid_chain does not raise on a candidate with a block    *)
(* that misses a field: it returns.                                         *)
C8_MalformedNeverRaises ==
    Malformed(chain) /\ ret.op = "drop" => ret.result \in {"True", "False"}

(* C9, as stated: valid_chain returns True for the empty chain and for      *)
(* every chain of one block, whatever the block holds.                      *)
C9_EmptyOrSingleIsValid ==
    Len(chain) <= 1 /\ ret.op # "candidate" => ret.result = "True"

----------------------------------------------------------------------------
(* Claims about the threaded server, checked under SpecThreaded *)

(* C10, as stated: in every reachable state, with requests interleaving,    *)
(* every block but the first holds the hash of the block before it and a    *)
(* proof that solves the puzzle of the proof before it.                     *)
C10_ChainInvariant ==
    \A i \in 1..(Len(chain) - 1) :
      /\ chain[i + 1].previous_hash = hash(chain[i])
      /\ valid_proof(chain[i].proof, chain[i + 1].proof)

----------------------------------------------------------------------------
(* Claims about the indexes, checked under Spec *)

(* C11, as stated: in every reachable state, also after consensus replaced  *)
(* the chain, new_transaction returns the length of the chain plus one.     *)
C11_ReturnsLengthPlusOne ==
    ret.op = "new_transaction" => ret.result = "ok" /\ ret.index = Len(chain) + 1

(* C12, as stated: in every reachable state the block at position i of the  *)
(* chain, counted from 1, has index i, so the indexes are 1..n without gap  *)
(* or repeat and only the first block has index 1.                          *)
C12_IndexesAreContiguous ==
    \A i \in DOMAIN chain : HasKey(chain[i], "index") /\ chain[i].index = i

----------------------------------------------------------------------------
(* Claims about the handlers, checked under Spec, and about ties, checked  *)
(* under SpecResolve                                                        *)

(* C13, as stated: a mine request completes successfully, with status 200   *)
(* and the sealed block's index, transactions, proof and previous_hash.     *)
C13_MineCompletes == ret.op = "mine" => ret.result = "200"

(* The positions, in the order of the loop, of the answers that report a    *)
(* valid chain longer than n blocks with the greatest length among these.   *)
TopPositions(reports, n) ==
    LET best == ValidLonger({reports[i] : i \in DOMAIN reports}, n)
    IN  {i \in DOMAIN reports :
           /\ reports[i] \in best
           /\ \A q \in best : q.length <= reports[i].length}

(* C14, as stated: when two peers report different valid chains of the same *)
(* length, greater than the local length and the greatest reported,         *)
(* resolve_conflicts adopts the chain of the peer examined later.           *)
C14_LaterOfTiedPeersWins ==
    [][Resolved =>
         LET top == TopPositions(ret'.reports, Len(chain))
         IN  \A i \in top, j \in top :
               i < j /\ ret'.reports[i].chain # ret'.reports[j].chain
                 => chain' = ret'.reports[j].chain]_vars

(* C14, amended: when resolve_conflicts returns True, the chain it adopted  *)
(* is the one of the peer examined first among the peers that report a      *)
(* valid chain of the greatest length; a peer examined later with the same  *)
(* length does not replace it.                                              *)
C14_FirstOfTiedPeersWins ==
    [][Resolved /\ ret'.result = "True" =>
         LET top == TopPositions(ret'.reports, Len(chain))
         IN  \E i \in top :
               /\ \A j \in top : i <= j
               /\ chain' = ret'.reports[i].chain]_vars

C14_Witness ==
    /\ ret.op = "resolve_conflicts"
    /\ ret.reports = <<Honest(Valid3), Honest(Valid3b)>>
    /\ ret.result = "True"
    /\ chain = Valid3

----------------------------------------------------------------------------
(* Claims about interleaved requests, checked under SpecThreaded *)

(* The step is the assignment self.chain = new_chain of some thread. *)
Replaces ==
    \E t \in Threads :
      threads[t].pc = "resolve_replace" /\ threads'[t].pc = "idle"

(* C15, as stated: a step that is not a chain replacement leaves every      *)
(* block of the chain in place, with the same fields and the same           *)
(* transaction list, so the chain before is a prefix of the chain after.    *)
C15_AppendedBlocksNeverChange ==
    [][~Replaces =>
         /\ Len(chain') >= Len(chain)
         /\ \A i \in DOMAIN chain :
               /\ chain'[i] = chain[i]
               /\ ListAt(chain'[i].transaction, lists')
                    = ListAt(chain[i].transaction, lists)]_vars

(* In how many places the list object `id` is: the pool, the blocks. *)
Places(id) ==
    (IF current_transactions = id THEN 1 ELSE 0)
      + Cardinality({i \in DOMAIN chain : chain[i].transaction = id})

(* C16, as stated: when the requests have ended and no consensus ran, every *)
(* transaction new_transaction accepted is in exactly one place, the pool   *)
(* or the list of exactly one block of the chain.                           *)
C16_EveryTransactionInOnePlace ==
    (resolves = 0 /\ \A t \in Threads : threads[t].pc = "idle")
      => \A id \in DOMAIN lists : lists[id] # <<>> => Places(id) = 1

(* C17, as stated: the length a GET /chain returns is the number of blocks  *)
(* of the chain it returns, whatever seal or replacement runs meanwhile.    *)
C17_ReturnedLengthIsReturnedChain ==
    ret.op = "full_chain"
      => \A i \in DOMAIN ret.reports :
            ret.reports[i].length = Len(ret.reports[i].chain)

(* A chain of two blocks: a tip with proof last_proof, a block with proof. *)
Solved(last_proof, proof) ==
    PeerSeal(<<[Valid1[1] EXCEPT !.proof = last_proof]>>, 102, proof)

(* valid_chain's verdict on those chains, computed once. *)
SolvedVerdict ==
    [last_proof \in LastProofs |->
       [proof \in 0..MaxSearch |-> ValidChainIn(Solved(last_proof, proof), <<>>)]]

(* C18: proof_of_work returns the smallest number from 0 that valid_proof  *)
(* accepts for last_proof; valid_chain accepts a block with that proof      *)
(* after a block with last_proof; the call leaves chain, pool and peers as  *)
(* they were.                                                               *)
C18_ProofOfWorkReturnsSmallest ==
    [][ret'.op = "proof_of_work"
         => LET last_proof == ret'.reports[1]
                proof == ret'.index
            IN  /\ valid_proof(last_proof, proof)
                /\ \A p \in 0..(proof - 1) : ~valid_proof(last_proof, p)
                /\ SolvedVerdict[last_proof][proof] = "True"
                /\ UNCHANGED <<chain, current_transactions, lists, nodes>>]_vars

(* proof_of_work has searched past 0 on a ledger with a sealed block. *)
C18_Witness ==
    /\ ret.op = "proof_of_work"
    /\ ret.reports = <<15>>
    /\ ret.index = 19
    /\ Len(chain) > 1

----------------------------------------------------------------------------
(* Claims about what resolve_conflicts leaves alone, checked under          *)
(* SpecResolve                                                              *)

(* C19: resolve_conflicts changes only the chain; the pool, every list and  *)
(* the peer set are what they were before the call, replaced or not.        *)
C19_ResolveChangesOnlyTheChain ==
    [][Resolved => UNCHANGED <<current_transactions, lists, nodes>>]_vars

(* A replacement has discarded a local block with a transaction while a     *)
(* transaction was pending: the pool holds the one and not the other.       *)
C19_Witness ==
    /\ ret.op = "resolve_conflicts"
    /\ ret.result = "True"
    /\ Pool # <<>>
    /\ \E id \in DOMAIN lists :
          /\ id # current_transactions
          /\ lists[id] # <<>>
          /\ \A i \in DOMAIN chain : chain[i].transaction # id

(* C20: when resolve_conflicts ends with an exception, the chain, the pool  *)
(* and the peer set are what they were before the call, whatever candidate  *)
(* the loop held when it raised.                                            *)
C20_RaisingResolveChangesNothing ==
    [][Resolved /\ ret'.result \notin {"True", "False"}
         => UNCHANGED <<chain, current_transactions, lists, nodes>>]_vars

(* The second peer's fetch raised after the first offered a longer valid    *)
(* chain.                                                                   *)
C20_Witness ==
    /\ ret.op = "resolve_conflicts"
    /\ ret.reports = <<Honest(Valid3), Unreachable>>
    /\ ret.result = "ConnectionError"
    /\ Len(chain) < Len(Valid3)

====
